---- MODULE Spec2Model ----
(***************************************************************************)
(* opencode-autopilot: the session runner (runner.py), the agent wrapper   *)
(* (opencode.py), the tool invoker with fallback (cli_runner.py), the      *)
(* rate-limit ledger (rate_limit.py), the project state detector           *)
(* (detector.py), the scaffolder (scaffold.py).  Spec is the runner, with  *)
(* a re-run after an interruption, and the tool invoker; LedgerSpec calls  *)
(* the ledger functions in any order; DetectorSpec calls the detector on   *)
(* any project directory; InvokerSpec calls the tool invoker on projects   *)
(* whose ledger files exist; WaitSpec calls calculate_wait_time;           *)
(* ScaffoldSpec calls ensure_scaffolded again and again on a project tree; *)
(* ScaffoldedDetectorSpec calls the detector before and after the project  *)
(* is scaffolded; FairSpec is Spec with every step of a run under way      *)
(* taken; WatchdogSpec runs sessions through run_with_timeout_check, the   *)
(* caller's thread and the worker threads interleaved, and                 *)
(* WatchdogFairSpec lets the caller's thread go on whatever the workers    *)
(* do.                                                                     *)
(* The texts of the status file and of .gitignore are written and parsed   *)
(* character by character, as file names are.                              *)
(*                                                                         *)
(* Texts (the captured error stream, the rate-limit patterns) are          *)
(* sequences of one-character strings, so that the case-insensitive        *)
(* search of check_rate_limit is computed, not assumed.  Diagnostics the   *)
(* program builds itself are one-element sequences holding the message.    *)
(*                                                                         *)
(* Python raises at a call whose keywords the callee does not accept, at   *)
(* a call that misses a required argument and at the lookup of a module    *)
(* attribute that is not defined; the exception leaves the function that   *)
(* made the call when nothing catches it.  run and run_gg_mode catch       *)
(* nothing around their prompt and agent calls, so an action of the runner *)
(* ends either as the statements say or with the exception of the first    *)
(* call that raises.  The session loop of run_gg_mode lies behind the      *)
(* research call of run_agent, which raises in every execution: no state   *)
(* at "gg_loop" is reachable and the loop has no action here.              *)
(***************************************************************************)
EXTENDS Integers, Sequences, FiniteSets, TLC

\* ------------------------------------------------------------------ bounds
MaxSessions == 3
MaxInterval == 1
MaxResume == 3
MaxDuration == 2
MaxRunSeconds == 125
MaxCalls == 3
MaxWatchdogCalls == 3

\* ------------------------------------------------------- program constants
max_retries == 3
CooldownSeconds == 60

\* ------------------------------------------------------------------- texts
UpperAlpha == <<"A","B","C","D","E","F","G","H","I","J","K","L","M",
                "N","O","P","Q","R","S","T","U","V","W","X","Y","Z">>
LowerAlpha == <<"a","b","c","d","e","f","g","h","i","j","k","l","m",
                "n","o","p","q","r","s","t","u","v","w","x","y","z">>

LowerOf == [i \in 1..26 |-> LowerAlpha[i]]
UpperIndex ==
    [c \in {UpperAlpha[i] : i \in 1..26} |->
        CHOOSE i \in 1..26 : UpperAlpha[i] = c]

\* re.IGNORECASE: both sides are compared letter by letter without case
Lower(c) == IF c \in DOMAIN UpperIndex THEN LowerOf[UpperIndex[c]] ELSE c

\* re.search(pattern, text, re.IGNORECASE) for a pattern of literal characters
Search(pattern, text) ==
    \E i \in 0..(Len(text) - Len(pattern)) :
        \A j \in 1..Len(pattern) : Lower(text[i + j]) = Lower(pattern[j])

Msg(s) == <<s>>

\* ------------------------------------------------------------ cli_runner.py
SUCCESS == "success"
FAILED == "failed"
RATE_LIMITED == "rate_limited"

TOOL_CONFIG ==
    [opencode |->
        [command |-> "opencode",
         rate_limit_patterns |->
            << <<"i","n","s","u","f","f","i","c","i","e","n","t"," ",
                 "b","a","l","a","n","c","e">>,
               <<"q","u","o","t","a"," ","e","x","c","e","e","d","e","d">>,
               <<"r","a","t","e"," ","l","i","m","i","t">> >>],
     kilocode |->
        [command |-> "kilo",
         rate_limit_patterns |->
            << <<"r","a","t","e"," ","l","i","m","i","t"," ",
                 "e","x","c","e","e","d","e","d">>,
               <<"f","r","e","e"," ","t","i","e","r"," ",
                 "r","a","t","e"," ","l","i","m","i","t">>,
               <<"4","2","9">> >>]]

\* mutant: kilocode is tried before opencode
ToolOrder_KilocodeFirst == <<"kilocode", "opencode">>

\* iteration order of the TOOL_CONFIG dict: the priority order
ToolOrder == <<"opencode", "kilocode">>
Tools == {"opencode", "kilocode"}

\* inst: the tools whose command shutil.which finds on PATH
is_tool_installed(tool_name, inst) ==
    /\ tool_name \in DOMAIN TOOL_CONFIG
    /\ tool_name \in inst

detect_available_tools(inst) ==
    SelectSeq(ToolOrder, LAMBDA t : is_tool_installed(t, inst))

\* mutant: the patterns of every configured tool are tried
check_rate_limit_AnyTool(stderr, tool_name) ==
    /\ tool_name \in DOMAIN TOOL_CONFIG
    /\ \E t \in DOMAIN TOOL_CONFIG :
          \E k \in 1..Len(TOOL_CONFIG[t].rate_limit_patterns) :
             Search(TOOL_CONFIG[t].rate_limit_patterns[k], stderr)

check_rate_limit(stderr, tool_name) ==
    /\ tool_name \in DOMAIN TOOL_CONFIG
    /\ \E k \in 1..Len(TOOL_CONFIG[tool_name].rate_limit_patterns) :
          Search(TOOL_CONFIG[tool_name].rate_limit_patterns[k], stderr)

\* mutant: the caller's excluded_tools are not taken out
AvailableTools_IgnoreExcluded(inst, excluded) == detect_available_tools(inst)

\* the candidates of one call: installed, not excluded, in priority order
AvailableTools(inst, excluded) ==
    SelectSeq(detect_available_tools(inst), LAMBDA t : t \notin excluded)

\* Error streams a tool may leave behind.
ErrNone == <<>>
ErrRateLimit == <<"R","a","t","e"," ","l","i","m","i","t"," ","h","i","t">>
ErrRateLimitExceeded ==
    <<"r","a","t","e"," ","l","i","m","i","t"," ","e","x","c","e","e","d","e","d">>
ErrHttp429 == <<"H","T","T","P"," ","4","2","9">>
ErrCrash == <<"p","a","n","i","c">>
ErrorStreams == {ErrNone, ErrRateLimit, ErrRateLimitExceeded, ErrHttp429, ErrCrash}

ProjectDocs == {"BLUEPRINT.md", "README.md"}

\* What one subprocess.run of a tool can do: raise (the executable is gone,
\* or any other launch error), or finish with an exit code and an error
\* stream, having written project documents or not.
Outcomes ==
    [exc : {"FileNotFoundError", "OSError"}, rc : {1}, stderr : {ErrNone},
     writes : {{}}]
    \cup
    [exc : {"none"}, rc : {0, 1}, stderr : ErrorStreams,
     writes : {{}} \cup {{f} : f \in ProjectDocs}]

\* one outcome for each candidate of a call
LaunchOutcomes(inst, excluded) ==
    [1..Len(AvailableTools(inst, excluded)) -> Outcomes]

run_tool(tool_name, o) ==
    IF tool_name \notin DOMAIN TOOL_CONFIG
    THEN [result |-> FAILED, stderr |-> Msg("Unknown tool")]
    ELSE IF o.exc = "FileNotFoundError"
    THEN [result |-> FAILED, stderr |-> Msg("not found in PATH")]
    ELSE IF o.exc # "none"
    THEN [result |-> FAILED, stderr |-> Msg(o.exc)]
    ELSE IF o.rc = 0
    THEN [result |-> SUCCESS, stderr |-> o.stderr]
    ELSE IF check_rate_limit(o.stderr, tool_name)
    THEN [result |-> RATE_LIMITED, stderr |-> o.stderr]
    ELSE [result |-> FAILED, stderr |-> o.stderr]

\* mutant: a rate-limited candidate ends the loop as well
ReturnsFromLoop_OnRateLimit(result) == result \in {SUCCESS, RATE_LIMITED}

\* `if result == ToolResult.SUCCESS: return`: every other result continues
ReturnsFromLoop(result) == result = SUCCESS

\* mutant: running out of candidates is reported as a plain failure
ExhaustedReturn_Failed ==
    [result |-> FAILED, tool_used |-> "",
     stderr |-> Msg("All tools hit rate limits")]

\* what the call returns once the for loop has run out of candidates
ExhaustedReturn ==
    [result |-> RATE_LIMITED, tool_used |-> "",
     stderr |-> Msg("All tools hit rate limits")]

\* The for loop from candidate i on; outs[i] is what launching candidate i
\* does, launches the launches made so far.
RECURSIVE FallbackLoop(_, _, _, _)
FallbackLoop(available, outs, i, launches) ==
    IF i > Len(available)
    THEN [result |-> ExhaustedReturn.result,
          tool_used |-> ExhaustedReturn.tool_used,
          stderr |-> ExhaustedReturn.stderr,
          launches |-> launches]
    ELSE LET r == run_tool(available[i], outs[i])
             made == Append(launches,
                        [tool |-> available[i], out |-> outs[i],
                         result |-> r.result])
         IN  IF ReturnsFromLoop(r.result)
             THEN [result |-> r.result, tool_used |-> available[i],
                   stderr |-> r.stderr, launches |-> made]
             ELSE FallbackLoop(available, outs, i + 1, made)

\* mutant: the `if not available` return is missing
run_with_fallback_NoEmptyCheck(inst, excluded, outs) ==
    FallbackLoop(AvailableTools(inst, excluded), outs, 1, <<>>)

run_with_fallback(inst, excluded, outs) ==
    LET available == AvailableTools(inst, excluded)
    IN  IF available = <<>>
        THEN [result |-> FAILED, tool_used |-> "",
              stderr |-> Msg("No CLI tools available"), launches |-> <<>>]
        ELSE FallbackLoop(available, outs, 1, <<>>)

\* mutant: the call itself leaves a README.md behind
WrittenBy_AndReadme(launches) ==
    UNION {launches[k].out.writes : k \in 1..Len(launches)} \cup {"README.md"}

\* the project documents the launched tools have written
WrittenBy(launches) ==
    UNION {launches[k].out.writes : k \in 1..Len(launches)}

\* ---------------------------------------------------------------- prompts.py
\* the prompt functions prompts.py defines, with the number of positional
\* parameters each requires (none has a default)
PromptFunctions ==
    [gg_research_prompt |-> 2, gg_blueprint_prompt |-> 3,
     blueprint_prompt |-> 3, build_session_prompt |-> 3,
     run_session_prompt |-> 3, final_session_prompt |-> 3]

\* prompts.<name>(<nargs positional arguments>): "ok" when the prompt is
\* rendered, else the exception the call raises
CallPrompt(name, nargs) ==
    IF name \notin DOMAIN PromptFunctions THEN "AttributeError"
    ELSE IF nargs # PromptFunctions[name] THEN "TypeError"
    ELSE "ok"

\* --------------------------------------------------------------- opencode.py
\* the parameters run_with_fallback declares (it takes no **kwargs)
RunWithFallbackParams ==
    {"prompt", "project_dir", "model", "agent", "excluded_tools", "log_callback"}

\* the keywords run_agent passes to run_with_fallback
RunAgentKeywords ==
    {"prompt", "project_dir", "model", "agent", "preferred_tool", "log_callback"}

AcceptsKeywords(keywords, params) == keywords \subseteq params

\* what the launches of one run_agent call can do: it launches nothing when
\* the call of run_with_fallback raises
AgentOutcomes(inst) ==
    IF ~AcceptsKeywords(RunAgentKeywords, RunWithFallbackParams)
    THEN {<<>>}
    ELSE LaunchOutcomes(inst, {})

\* run_agent(prompt, project_dir, model, agent): raised is the exception that
\* leaves run_agent ("none" when it returns), success its return value
run_agent(inst, outs) ==
    IF ~AcceptsKeywords(RunAgentKeywords, RunWithFallbackParams)
    THEN [raised |-> "TypeError", success |-> FALSE, launches |-> <<>>]
    ELSE LET r == run_with_fallback(inst, {}, outs)
         IN  [raised |-> "none", success |-> r.result = SUCCESS,
              launches |-> r.launches]

\* --------------------------------------------------------------- scaffold.py
ScaffoldPaths ==
    {".opencode/agents", ".opencode/skills", ".opencode-autopilot/HEARTBEAT",
     ".gitignore"}

\* the directories and the .gitignore that ensure_scaffolded leaves in place
\* (it writes nothing else at the top level of the project directory)
ensure_scaffolded(fs) == fs \cup ScaffoldPaths

\* ------------------------------------------------------------- rate_limit.py
\* RateLimitStatus(): the defaults of the dataclass
RateLimitStatus ==
    [opencode_limited |-> FALSE, kilocode_limited |-> FALSE, timestamp |-> <<>>]

\* .opencode-autopilot/HEARTBEAT, the directory of both ledger files
HeartbeatDir == ".opencode-autopilot/HEARTBEAT"

NL == "\n"
Whitespace == {" ", NL, "\t", "\r"}

Digit == <<"0","1","2","3","4","5","6","7","8","9">>
TwoDigits(n) == <<Digit[(n \div 10) + 1], Digit[(n % 10) + 1]>>
FourDigits(n) == TwoDigits(n \div 100) \o TwoDigits(n % 100)

\* readings of datetime.now()
Clocks ==
    {[year |-> 2026, month |-> 1, day |-> 5, hour |-> 9, minute |-> 30,
      second |-> 0],
     [year |-> 2026, month |-> 11, day |-> 24, hour |-> 23, minute |-> 5,
      second |-> 59]}

\* t.strftime("%Y-%m-%d %H:%M:%S")
strftime(t) ==
    FourDigits(t.year) \o <<"-">> \o TwoDigits(t.month) \o <<"-">>
    \o TwoDigits(t.day) \o <<" ">> \o TwoDigits(t.hour) \o <<":">>
    \o TwoDigits(t.minute) \o <<":">> \o TwoDigits(t.second)

\* str(b) of a bool, as the f-string formats it
Str(b) == IF b THEN <<"T","r","u","e">> ELSE <<"F","a","l","s","e">>

\* the text save_rate_limit_status writes
StatusContent(opencode_limited, kilocode_limited, timestamp) ==
    <<"o","p","e","n","c","o","d","e","=">> \o Str(opencode_limited) \o <<NL>>
    \o <<"k","i","l","o","c","o","d","e","=">> \o Str(kilocode_limited) \o <<NL>>
    \o <<"t","i","m","e","s","t","a","m","p","=">> \o timestamp \o <<NL>>

\* text.strip()
RECURSIVE Strip(_)
Strip(text) ==
    IF text = <<>> THEN text
    ELSE IF Head(text) \in Whitespace THEN Strip(Tail(text))
    ELSE IF text[Len(text)] \in Whitespace
    THEN Strip(SubSeq(text, 1, Len(text) - 1))
    ELSE text

\* the index of the first sep in text, or Len(text) + 1
FirstIndex(text, sep) ==
    IF \E i \in 1..Len(text) : text[i] = sep
    THEN CHOOSE i \in 1..Len(text) :
            /\ text[i] = sep
            /\ \A j \in 1..(i - 1) : text[j] # sep
    ELSE Len(text) + 1

\* text.split(sep)
RECURSIVE Split(_, _)
Split(text, sep) ==
    LET i == FirstIndex(text, sep)
    IN  IF i > Len(text) THEN <<text>>
        ELSE <<SubSeq(text, 1, i - 1)>>
             \o Split(SubSeq(text, i + 1, Len(text)), sep)

\* text.split(sep, 1)
SplitOnce(text, sep) ==
    LET i == FirstIndex(text, sep)
    IN  IF i > Len(text) THEN <<text>>
        ELSE <<SubSeq(text, 1, i - 1), SubSeq(text, i + 1, Len(text))>>

\* text.startswith(prefix)
StartsWith(text, prefix) ==
    /\ Len(prefix) <= Len(text)
    /\ SubSeq(text, 1, Len(prefix)) = prefix

\* text.lower()
LowerText(text) == [i \in 1..Len(text) |-> Lower(text[i])]

\* mutant: the flag is compared without lower()
ParseFlag_CaseSensitive(field) == field = <<"t","r","u","e">>

\* field.lower() == "true"
ParseFlag(field) == LowerText(field) = <<"t","r","u","e">>

\* the for loop of load_rate_limit_status from line i on
RECURSIVE LoadLines(_, _, _)
LoadLines(lines, i, status) ==
    IF i > Len(lines) THEN status
    ELSE LET line == lines[i]
             next ==
                IF StartsWith(line, <<"o","p","e","n","c","o","d","e","=">>)
                THEN [status EXCEPT
                        !.opencode_limited = ParseFlag(Split(line, "=")[2])]
                ELSE IF StartsWith(line, <<"k","i","l","o","c","o","d","e","=">>)
                THEN [status EXCEPT
                        !.kilocode_limited = ParseFlag(Split(line, "=")[2])]
                ELSE IF StartsWith(line, <<"t","i","m","e","s","t","a","m","p","=">>)
                THEN [status EXCEPT
                        !.timestamp = SplitOnce(line, "=")[2]]
                ELSE status
         IN  LoadLines(lines, i + 1, next)

\* load_rate_limit_status: sf is the status file, [exists, content]
load_rate_limit_status(sf) ==
    IF ~sf.exists THEN RateLimitStatus
    ELSE LoadLines(Split(Strip(sf.content), NL), 1, RateLimitStatus)

NoFile == [exists |-> FALSE, content |-> <<>>]

\* save_rate_limit_status: the status file it leaves
save_rate_limit_status(opencode_limited, kilocode_limited, now) ==
    [exists |-> TRUE,
     content |-> StatusContent(opencode_limited, kilocode_limited,
                               strftime(now))]

\* mutant: the status is built anew, with the flag of tool_name alone
mark_tool_limited_Fresh(sf, tool_name, now) ==
    save_rate_limit_status(tool_name = "opencode", tool_name = "kilocode", now)

\* mark_tool_limited: the status file it leaves
mark_tool_limited(sf, tool_name, now) ==
    LET status == load_rate_limit_status(sf)
    IN  save_rate_limit_status(
            IF tool_name = "opencode" THEN TRUE ELSE status.opencode_limited,
            IF tool_name = "kilocode" THEN TRUE ELSE status.kilocode_limited,
            now)

\* the tool_name arguments a caller passes: the configured names and the
\* command name of kilocode, which is no tool name
ToolNames == Tools \cup {"kilo"}

\* mutant: only the status file is removed
clear_rate_limit_status_StatusOnly(sf, paused) ==
    [status |-> NoFile, paused |-> paused]

\* clear_rate_limit_status: the status file and the paused marker it leaves
\* (paused: PAUSED_RATE_LIMIT.md exists)
clear_rate_limit_status(sf, paused) ==
    [status |-> IF sf.exists THEN NoFile ELSE sf,
     paused |-> IF paused THEN FALSE ELSE paused]

is_paused(paused) == paused

\* mutant: both flags are required, installed or not
all_tools_limited_BothFlags(status, inst) ==
    status.opencode_limited /\ status.kilocode_limited

\* all_tools_limited, for the loaded status and the tools on PATH
all_tools_limited(status, inst) ==
    LET available == detect_available_tools(inst)
    IN  IF available = <<>> THEN TRUE
        ELSE \A k \in 1..Len(available) :
                /\ ~(available[k] = "opencode" /\ ~status.opencode_limited)
                /\ ~(available[k] = "kilocode" /\ ~status.kilocode_limited)

\* ------------------------------------------- scaffold.py, file by file
\* `sub in text`, as Python compares: case matters
Contains(text, sub) ==
    \E i \in 1..(Len(text) - Len(sub) + 1) :
       SubSeq(text, i, i + Len(sub) - 1) = sub

\* text.count(sub) for a sub that cannot overlap itself
Occurrences(text, sub) ==
    Cardinality({i \in 1..(Len(text) - Len(sub) + 1) :
                    SubSeq(text, i, i + Len(sub) - 1) = sub})

ScaffoldDirs == ScaffoldPaths \ {".gitignore"}

AgentFiles ==
    {".opencode/agents/autonomous.md", ".opencode/agents/security-review.md"}

\* skills_to_copy, as destination paths
SkillFiles ==
    {".opencode/skills/research.md", ".opencode/skills/security-review.md",
     ".opencode/skills/blueprint.md", ".opencode/skills/refactor.md",
     ".opencode/skills/self-review.md", ".opencode/skills/verify.md",
     ".opencode/skills/commit.md"}

\* the destinations ensure_scaffolded copies a template to
TemplateFiles == AgentFiles \cup SkillFiles

\* the directory a destination lies in
DirOf(f) == IF f \in AgentFiles THEN ".opencode/agents" ELSE ".opencode/skills"

ignore_entry == <<".","o","p","e","n","c","o","d","e","-","a","u","t","o","p",
    "i","l","o","t","/">>

\* f"# opencode-autopilot\n{ignore_entry}\n"
GitignoreBlock ==
    <<"#"," ","o","p","e","n","c","o","d","e","-","a","u","t","o","p","i","l",
        "o","t">> \o <<NL>> \o ignore_entry \o <<NL>>

\* the .gitignore step: [file, created], created being what the step
\* contributes to created_something
GitignoreStep(g) ==
    IF g.exists
    THEN IF ~Contains(g.content, ignore_entry)
         THEN [file |-> [exists |-> TRUE,
                         content |-> g.content \o <<NL>> \o GitignoreBlock],
               created |-> FALSE]
         ELSE [file |-> g, created |-> FALSE]
    ELSE [file |-> [exists |-> TRUE, content |-> GitignoreBlock],
          created |-> TRUE]

\* mutant: a shipped template is copied over an existing destination
ShouldCopy_Overwrite(f, paths, shipped_templates) == f \in shipped_templates

\* `if src.exists() and not dst.exists()`
ShouldCopy(f, paths, shipped_templates) ==
    /\ f \in shipped_templates
    /\ f \notin paths

\* ensure_scaffolded(project_dir, silent, include_readme) on the tree t
\* (paths, the files among them that hold the user's own content, and
\* .gitignore), with the templates the installation ships: the tree it
\* leaves and the created_something it returns. shutil.copy replaces the
\* content of its destination; include_readme changes nothing.
EnsureScaffolded(t, shipped_templates, include_readme) ==
    LET made == ScaffoldDirs \ t.paths
        copied == {f \in TemplateFiles :
                      ShouldCopy(f, t.paths, shipped_templates)}
        gi == GitignoreStep(t.gitignore)
    IN  [tree |-> [paths |-> t.paths \cup made \cup copied,
                   user |-> t.user \ copied,
                   gitignore |-> gi.file],
         created_something |-> made # {} \/ copied # {} \/ gi.created]

\* the agent and skill files a user may have written before the first call
UserFiles == {".opencode/agents/autonomous.md", ".opencode/skills/commit.md"}

\* the .gitignore a project may have before the first call: none, an empty
\* one, one without the entry (ending in a newline or not), one with the
\* entry, one with the entry inside a longer line, one with the entry in
\* capitals
GitignoreFiles ==
    {NoFile,
     [exists |-> TRUE, content |-> <<>>],
     [exists |-> TRUE, content |-> <<"d","i","s","t","/">> \o <<NL>>],
     [exists |-> TRUE, content |-> <<"d","i","s","t","/">>],
     [exists |-> TRUE, content |-> ignore_entry \o <<NL>>],
     [exists |-> TRUE, content |-> <<"/">> \o ignore_entry \o <<"*", NL>>],
     [exists |-> TRUE, content |-> <<".","O","P","E","N","C","O","D","E","-",
         "A","U","T","O","P","I","L","O","T","/">> \o <<NL>>]}

\* the sets of templates an installation may ship: all, all but one skill,
\* none
TemplateSets ==
    {TemplateFiles, TemplateFiles \ {".opencode/skills/verify.md"}, {}}

\* the project trees ensure_scaffolded may be called on first
Trees ==
    {[paths |-> ds \cup u, user |-> u, gitignore |-> g] :
        ds \in SUBSET ScaffoldDirs, u \in SUBSET UserFiles,
        g \in GitignoreFiles}

WellFormedTree(t) == \A f \in t.user : DirOf(f) \in t.paths

\* --------------------------------------------------------------- detector.py
EMPTY == "empty"
HAS_CODE_NO_BLUEPRINT == "has_code_no_blueprint"
BLUEPRINT_ONLY == "blueprint_only"
ACTIVE == "active"
COMPLETED == "completed"
ProjectState == {EMPTY, HAS_CODE_NO_BLUEPRINT, BLUEPRINT_ONLY, ACTIVE, COMPLETED}

CODE_EXTENSIONS ==
    {
     <<".","p","y">>, <<".","j","s">>, <<".","t","s">>,
     <<".","j","s","x">>, <<".","t","s","x">>, <<".","g","o">>,
     <<".","r","s">>, <<".","j","a","v","a">>, <<".","c">>,
     <<".","c","p","p">>, <<".","h">>, <<".","h","p","p">>,
     <<".","c","s">>, <<".","r","b">>, <<".","p","h","p">>,
     <<".","s","w","i","f","t">>, <<".","k","t">>,
     <<".","s","c","a","l","a">>, <<".","v","u","e">>,
     <<".","s","v","e","l","t","e">>, <<".","h","t","m","l">>,
     <<".","c","s","s">>, <<".","s","c","s","s">>, <<".","s","a","s","s">>,
     <<".","l","e","s","s">>, <<".","j","s","o","n">>,
     <<".","y","a","m","l">>, <<".","y","m","l">>, <<".","t","o","m","l">>,
     <<".","x","m","l">>, <<".","s","q","l">>, <<".","s","h">>,
     <<".","b","a","s","h">>, <<".","z","s","h">>, <<".","p","s","1">>,
     <<".","p","s","m","1">>
    }

\* mutant: .gitignore is not in the ignore set
IGNORED_PATHS_NoGitignore ==
    {
     <<".","g","i","t">>,
     <<".","a","u","t","o","p","i","l","o","t",".","j","s","o","n">>,
     <<".","o","p","e","n","c","o","d","e">>,
     <<".","o","p","e","n","c","o","d","e","-","a","u","t","o","p","i","l","o","t">>,
     <<"n","o","d","e","_","m","o","d","u","l","e","s">>,
     <<"_","_","p","y","c","a","c","h","e","_","_">>,
     <<".","v","e","n","v">>, <<"v","e","n","v">>, <<"d","i","s","t">>,
     <<"b","u","i","l","d">>, <<".","n","e","x","t">>,
     <<".","n","u","x","t">>
    }

IGNORED_PATHS ==
    {
     <<".","g","i","t">>, <<".","g","i","t","i","g","n","o","r","e">>,
     <<".","a","u","t","o","p","i","l","o","t",".","j","s","o","n">>,
     <<".","o","p","e","n","c","o","d","e">>,
     <<".","o","p","e","n","c","o","d","e","-","a","u","t","o","p","i","l","o","t">>,
     <<"n","o","d","e","_","m","o","d","u","l","e","s">>,
     <<"_","_","p","y","c","a","c","h","e","_","_">>,
     <<".","v","e","n","v">>, <<"v","e","n","v">>, <<"d","i","s","t">>,
     <<"b","u","i","l","d">>, <<".","n","e","x","t">>,
     <<".","n","u","x","t">>
    }

\* Paths a project directory may hold besides the project documents and the
\* scaffolding: the old heartbeat directory, the deploy guide in either
\* heartbeat directory, source and text files, a hidden file, a directory
\* that is ignored.
OldHeartbeatDir == "HEARTBEAT"
NewDeployGuide == ".opencode-autopilot/HEARTBEAT/DEPLOY_GUIDE.md"
OldDeployGuide == "HEARTBEAT/DEPLOY_GUIDE.md"
OtherPaths ==
    {OldHeartbeatDir, NewDeployGuide, OldDeployGuide,
     "main.py", "APP.JS", "notes.txt", ".env", "node_modules"}
AllPaths == ProjectDocs \cup ScaffoldPaths \cup OtherPaths

\* a file lies in a directory that exists
WellFormed(fs) ==
    /\ NewDeployGuide \in fs => HeartbeatDir \in fs
    /\ OldDeployGuide \in fs => OldHeartbeatDir \in fs

\* the item of project_dir.iterdir() under which a path lies: its name and
\* whether it is a regular file
TopLevel ==
    [p \in AllPaths |->
        IF p = "BLUEPRINT.md"
        THEN [name |-> <<"B","L","U","E","P","R","I","N","T",".","m","d">>, is_file |-> TRUE]
        ELSE IF p = "README.md"
        THEN [name |-> <<"R","E","A","D","M","E",".","m","d">>, is_file |-> TRUE]
        ELSE IF p = ".gitignore"
        THEN [name |-> <<".","g","i","t","i","g","n","o","r","e">>, is_file |-> TRUE]
        ELSE IF p = ".opencode/agents"
        THEN [name |-> <<".","o","p","e","n","c","o","d","e">>, is_file |-> FALSE]
        ELSE IF p = ".opencode/skills"
        THEN [name |-> <<".","o","p","e","n","c","o","d","e">>, is_file |-> FALSE]
        ELSE IF p = ".opencode-autopilot/HEARTBEAT"
        THEN [name |-> <<".","o","p","e","n","c","o","d","e","-","a","u","t","o","p","i","l","o","t">>, is_file |-> FALSE]
        ELSE IF p = ".opencode-autopilot/HEARTBEAT/DEPLOY_GUIDE.md"
        THEN [name |-> <<".","o","p","e","n","c","o","d","e","-","a","u","t","o","p","i","l","o","t">>, is_file |-> FALSE]
        ELSE IF p = "HEARTBEAT"
        THEN [name |-> <<"H","E","A","R","T","B","E","A","T">>, is_file |-> FALSE]
        ELSE IF p = "HEARTBEAT/DEPLOY_GUIDE.md"
        THEN [name |-> <<"H","E","A","R","T","B","E","A","T">>, is_file |-> FALSE]
        ELSE IF p = "main.py"
        THEN [name |-> <<"m","a","i","n",".","p","y">>, is_file |-> TRUE]
        ELSE IF p = "APP.JS"
        THEN [name |-> <<"A","P","P",".","J","S">>, is_file |-> TRUE]
        ELSE IF p = "notes.txt"
        THEN [name |-> <<"n","o","t","e","s",".","t","x","t">>, is_file |-> TRUE]
        ELSE IF p = ".env"
        THEN [name |-> <<".","e","n","v">>, is_file |-> TRUE]
        ELSE [name |-> <<"n","o","d","e","_","m","o","d","u","l","e","s">>, is_file |-> FALSE]]

\* Path(name).suffix: from the last dot on, unless the name has no dot other
\* than a leading one or ends with the dot
Suffix(name) ==
    LET dots == {i \in 2..Len(name) : name[i] = "."}
    IN  IF dots = {} THEN <<>>
        ELSE LET i == CHOOSE i \in dots : \A j \in dots : j <= i
             IN  IF i = Len(name) THEN <<>> ELSE SubSeq(name, i, Len(name))

is_source_file(item) ==
    /\ item.is_file
    /\ LowerText(Suffix(item.name)) \in CODE_EXTENSIONS

\* the loop over project_dir.iterdir(): the items kept in `files`
ScannedFiles(fs) ==
    {item \in {TopLevel[p] : p \in fs} :
        /\ ~(/\ item.name[1] = "."
             /\ item.name \notin {<<".","g","i","t","i","g","n","o","r","e">>,
                                  <<".","a","u","t","o","p","i","l","o","t",".","j","s","o","n">>})
        /\ item.name \notin IGNORED_PATHS
        /\ item.is_file}

\* scan_directory, for the set fs of paths that exist
scan_directory(fs) ==
    LET new_is_dir == HeartbeatDir \in fs
        active_guide == IF new_is_dir THEN NewDeployGuide ELSE OldDeployGuide
        scanned == ScannedFiles(fs)
    IN  [has_blueprint |-> "BLUEPRINT.md" \in fs,
         has_heartbeat |-> OldHeartbeatDir \in fs \/ new_is_dir,
         has_deploy_guide |-> active_guide \in fs,
         has_source_code |-> \E f \in scanned : is_source_file(f),
         has_text_only |->
            /\ scanned # {}
            /\ \A f \in scanned :
                  LowerText(Suffix(f.name)) \in {<<".","m","d">>, <<".","t","x","t">>},
         file_count |-> Cardinality(scanned)]

\* mutant: a directory with files but no source code counts as empty
StateOf_NoSourceIsEmpty(info) ==
    IF info.has_blueprint /\ info.has_heartbeat
    THEN IF info.has_deploy_guide THEN COMPLETED ELSE ACTIVE
    ELSE IF info.has_blueprint /\ ~info.has_heartbeat THEN BLUEPRINT_ONLY
    ELSE IF info.has_source_code THEN HAS_CODE_NO_BLUEPRINT
    ELSE EMPTY

\* the if/elif chain of detect_project_state
StateOf(info) ==
    IF info.has_blueprint /\ info.has_heartbeat
    THEN IF info.has_deploy_guide THEN COMPLETED ELSE ACTIVE
    ELSE IF info.has_blueprint /\ ~info.has_heartbeat THEN BLUEPRINT_ONLY
    ELSE IF info.has_source_code THEN HAS_CODE_NO_BLUEPRINT
    ELSE IF info.file_count = 0 THEN EMPTY
    ELSE HAS_CODE_NO_BLUEPRINT

\* detect_project_state: the DetectionResult, with the scan it was made from
detect_project_state(fs) ==
    LET info == scan_directory(fs)
    IN  [state |-> StateOf(info), info |-> info]

\* ----------------------------------------------------------------- runner.py
RunOptions ==
    [sessions : 1..MaxSessions, interval : 0..MaxInterval, resume : 1..MaxResume]

\* wall-clock seconds a session may take
Durations == {30 * k : k \in 0..MaxDuration}

\* total_seconds() is a float: a duration is counted in half seconds
Halves == 2

\* int(x) of a non-negative x counted in half seconds: the fraction is cut
int(halves) == halves \div Halves

\* mutant: a run that took exactly the interval waits the remainder, 0
calculate_wait_time_Inclusive(run_duration_halves, interval_minutes) ==
    LET interval_seconds == interval_minutes * 60
    IN  IF run_duration_halves <= interval_seconds * Halves
        THEN int(interval_seconds * Halves - run_duration_halves)
        ELSE interval_seconds

\* calculate_wait_time(run_duration_seconds, interval_minutes), the
\* duration given in half seconds
calculate_wait_time(run_duration_halves, interval_minutes) ==
    LET interval_seconds == interval_minutes * 60
    IN  IF run_duration_halves < interval_seconds * Halves
        THEN int(interval_seconds * Halves - run_duration_halves)
        ELSE interval_seconds

\* mutant: the blueprint session is counted on top of the build sessions
RunTotalRuns_BlueprintExtra(sessions, hasBlueprint) ==
    IF hasBlueprint THEN sessions + 1 ELSE sessions + 2

\* mutant: a run that finds the blueprint has no session to count for it
RunTotalRuns_FoundBlueprintLess(sessions, hasBlueprint) ==
    IF hasBlueprint THEN sessions ELSE sessions + 1

\* run: total_runs, from the session count and whether BLUEPRINT.md exists
RunTotalRuns(sessions, hasBlueprint) ==
    IF hasBlueprint THEN sessions + 1 ELSE sessions + 1

\* run_gg_mode: total_runs of the loop that follows the research session
GgTotalRuns(sessions) == sessions + 2

VARIABLES
    files,          \* the paths that exist in the project directory
    installed,      \* the tools found on PATH
    lastCall,       \* the last direct call of run_with_fallback and its return
    pc,             \* where run / run_gg_mode stands
    mode,           \* "run", "gg" or "none"
    options,        \* the RunOptions of the run
    has_blueprint,  \* run: BLUEPRINT.md existed when the run started
    total_runs,
    run_num,        \* run: run_num; run_gg_mode: run
    retry_count,
    agentCalls,     \* the run_agent calls the runner has made, in order
    launched,       \* the tool launches made for the runner's agent calls
    sleeps,         \* the sleep_seconds calls the runner has made, in order
    retval,         \* "none" until run / run_gg_mode returns "True" or "False"
    raised,         \* the exception that left run / run_gg_mode, if any
    observed,       \* what the run has seen of the project directory:
                    \* BLUEPRINT.md existing (`blueprint`), README.md
                    \* existing when the run started (`readme`)
    statusFile,     \* HEARTBEAT/.rate_limit_status: [exists, content]
    pausedFile,     \* HEARTBEAT/PAUSED_RATE_LIMIT.md exists
    lastOp,         \* the last call of a rate_limit.py function and its return
    prevOp,         \* the call before it
    entries,        \* the other paths that exist in the project directory
    detection,      \* the last return of detect_project_state, and the
                    \* paths (`of`) that existed when it was called
    prevRun,        \* what the run that was interrupted before this one
                    \* had derived, if there was one
    waitCall,       \* the last call of calculate_wait_time and its return
    tree,           \* the project tree ensure_scaffolded works on: paths,
                    \* the files of the user's own among them, .gitignore
    shipped,        \* the templates the installation ships
    scaffoldLog,    \* the calls of ensure_scaffolded: how many, the last
                    \* return, the tree before the last and the first call
    supervisor,     \* where the caller's thread stands in
                    \* run_with_timeout_check ("idle" outside of it)
    threads,        \* the worker thread of each call, in order of the calls
    result,         \* the `result` variable of each call
    timeout_hit,    \* the timeout_hit event of each call
    joined,         \* how thread.join ended in each call: "ended" when the
                    \* worker had ended, "timeout" when the budget ran out
    returns         \* what each call returned: (result, was_timeout)

vars == <<files, installed, lastCall, pc, mode, options, has_blueprint,
          total_runs, run_num, retry_count, agentCalls, launched, sleeps,
          retval, raised, observed, statusFile, pausedFile, lastOp, prevOp, entries,
          detection, prevRun, waitCall, tree, shipped, scaffoldLog,
          supervisor, threads, result, timeout_hit, joined, returns>>

ledgerVars == <<statusFile, pausedFile, lastOp, prevOp>>
detectorVars == <<entries, detection>>
waitVars == <<waitCall>>
scaffoldVars == <<tree, shipped, scaffoldLog>>
watchdogVars == <<supervisor, threads, result, timeout_hit, joined, returns>>

runnerVars == <<pc, mode, options, has_blueprint, total_runs, run_num,
                retry_count, agentCalls, launched, sleeps, retval, raised,
                observed>>

NoCall == [called |-> FALSE]
NoOptions == [sessions |-> 1, interval |-> 0, resume |-> 1]
NoRaise == [type |-> "none", site |-> "none", index |-> 0]
NothingObserved == [blueprint |-> FALSE, readme |-> FALSE]
NoArgs == [opencode_limited |-> FALSE, kilocode_limited |-> FALSE, tool_name |-> ""]
NoOp ==
    [op |-> "none", args |-> NoArgs, had |-> [status |-> FALSE, paused |-> FALSE],
     status |-> RateLimitStatus, value |-> FALSE]
NoPrev == [op |-> "none", args |-> NoArgs]
NoPrevRun ==
    [ran |-> FALSE, sessions |-> 1, has_blueprint |-> FALSE, total_runs |-> 0]
NoTree == [paths |-> {}, user |-> {}, gitignore |-> NoFile]
NoScaffold ==
    [calls |-> 0, include_readme |-> FALSE, returned |-> FALSE,
     before |-> NoTree, initial |-> NoTree]
NoWait == [called |-> FALSE, halves |-> 0, interval |-> 0, result |-> 0]
NoDetection ==
    [called |-> FALSE, of |-> {}, state |-> EMPTY, info |-> scan_directory({})]

\* no function of rate_limit.py has been called, no ledger file exists
LedgerUntouched ==
    /\ statusFile = NoFile
    /\ pausedFile = FALSE
    /\ lastOp = NoOp
    /\ prevOp = NoPrev

\* detect_project_state has not been called
DetectorUntouched ==
    /\ entries = {}
    /\ detection = NoDetection

\* run_with_timeout_check has not been called
WatchdogUntouched ==
    /\ supervisor = "idle"
    /\ threads = <<>>
    /\ result = <<>>
    /\ timeout_hit = <<>>
    /\ joined = <<>>
    /\ returns = <<>>

\* neither run nor run_gg_mode has been called, nor run_with_fallback
RunnerNotStarted ==
    /\ lastCall = NoCall
    /\ pc = "idle"
    /\ mode = "none"
    /\ options = NoOptions
    /\ has_blueprint = FALSE
    /\ total_runs = 0
    /\ run_num = 0
    /\ retry_count = 0
    /\ agentCalls = <<>>
    /\ launched = <<>>
    /\ sleeps = <<>>
    /\ retval = "none"
    /\ raised = NoRaise
    /\ observed = NothingObserved
    /\ prevRun = NoPrevRun

\* calculate_wait_time has not been called
WaitUntouched == waitCall = NoWait

\* ensure_scaffolded is not looked at file by file
ScaffoldUntouched ==
    /\ tree = NoTree
    /\ shipped = {}
    /\ scaffoldLog = NoScaffold

Init ==
    /\ files \in {d \cup s : d \in SUBSET ProjectDocs, s \in {{}, ScaffoldPaths}}
    /\ installed \in SUBSET Tools
    /\ LedgerUntouched
    /\ DetectorUntouched
    /\ RunnerNotStarted
    /\ WaitUntouched
    /\ ScaffoldUntouched
    /\ WatchdogUntouched

\* Somebody else (the user, a tool left running) writes a project document.
ExternalWrite ==
    /\ pc \in {"idle", "run_loop", "run_blueprint", "gg_research", "gg_loop"}
    /\ \E f \in ProjectDocs \ files : files' = files \cup {f}
    /\ UNCHANGED <<installed, lastCall>>
    /\ UNCHANGED runnerVars
    /\ UNCHANGED <<ledgerVars, detectorVars, waitVars, scaffoldVars,
                   watchdogVars, prevRun>>

\* A caller invokes run_with_fallback directly.
CallRunWithFallback ==
    /\ pc = "idle"
    /\ \E excluded \in SUBSET Tools :
        \E outs \in LaunchOutcomes(installed, excluded) :
         LET r == run_with_fallback(installed, excluded, outs)
         IN  /\ lastCall' = [called |-> TRUE, excluded |-> excluded,
                             result |-> r.result, tool_used |-> r.tool_used,
                             stderr |-> r.stderr, launches |-> r.launches]
             /\ files' = files \cup WrittenBy(r.launches)
    /\ pc' = "called"
    /\ UNCHANGED <<installed, mode, options, has_blueprint, total_runs,
                   run_num, retry_count, agentCalls, launched, sleeps, retval,
                   raised, observed>>
    /\ UNCHANGED <<ledgerVars, detectorVars, waitVars, scaffoldVars,
                   watchdogVars, prevRun>>

\* An exception leaves run / run_gg_mode at `site` in session `index`.
Raise(type, site, index) ==
    /\ pc' = "raised"
    /\ raised' = [type |-> type, site |-> site, index |-> index]

\* ------------------------------------------------------------------- run
\* run, up to the while loop: the blueprint probe, total_runs, scaffolding
RunStart ==
    /\ pc = "idle"
    /\ \E o \in RunOptions :
         /\ options' = o
         /\ total_runs' = RunTotalRuns(o.sessions, "BLUEPRINT.md" \in files)
    /\ mode' = "run"
    /\ has_blueprint' = ("BLUEPRINT.md" \in files)
    /\ observed' = [blueprint |-> "BLUEPRINT.md" \in files,
                    readme |-> "README.md" \in files]
    /\ files' = ensure_scaffolded(files)
    /\ run_num' = 1
    /\ pc' = "run_loop"
    /\ UNCHANGED <<installed, lastCall, retry_count, agentCalls, launched, sleeps,
                   retval, raised>>
    /\ UNCHANGED <<ledgerVars, detectorVars, waitVars, scaffoldVars,
                   watchdogVars, prevRun>>

\* The process is killed, or an exception has left run, and run is called
\* again on the same project directory with the same interval and resume
\* options: the blueprint probe, total_runs and the scaffolding are done
\* anew, nothing of the interrupted run is read.
RunRestart ==
    /\ mode = "run"
    /\ pc \in {"run_loop", "run_blueprint", "raised"}
    /\ ~prevRun.ran
    /\ prevRun' = [ran |-> TRUE, sessions |-> options.sessions,
                   has_blueprint |-> has_blueprint,
                   total_runs |-> total_runs]
    /\ \E n \in 1..MaxSessions :
         /\ options' = [options EXCEPT !.sessions = n]
         /\ total_runs' = RunTotalRuns(n, "BLUEPRINT.md" \in files)
    /\ has_blueprint' = ("BLUEPRINT.md" \in files)
    /\ observed' = [blueprint |-> "BLUEPRINT.md" \in files,
                    readme |-> "README.md" \in files]
    /\ files' = ensure_scaffolded(files)
    /\ run_num' = 1
    /\ pc' = "run_loop"
    /\ retry_count' = 0
    /\ agentCalls' = <<>>
    /\ launched' = <<>>
    /\ sleeps' = <<>>
    /\ retval' = "none"
    /\ raised' = NoRaise
    /\ UNCHANGED <<installed, lastCall, mode>>
    /\ UNCHANGED <<ledgerVars, detectorVars, waitVars, scaffoldVars, watchdogVars>>

\* the end of a loop iteration of run that took d seconds: the pacing
\* sleep unless this was the last session, run_num += 1, the loop test, and
\* `return True` when the loop is left
RunFinishIteration(d) ==
    /\ sleeps' = IF run_num < total_runs
                 THEN Append(sleeps,
                        [kind |-> "pace", after |-> run_num,
                         seconds |-> calculate_wait_time(d * Halves, options.interval)])
                 ELSE sleeps
    /\ run_num' = run_num + 1
    /\ IF run_num + 1 <= total_runs
       THEN pc' = "run_loop" /\ retval' = retval
       ELSE pc' = "returned" /\ retval' = "True"
    /\ raised' = raised

\* RunBlueprintSkip without `if blueprint_path.exists()`
RunBlueprintSkip_Unchecked ==
    /\ pc = "run_loop"
    /\ run_num <= total_runs
    /\ run_num = 1 /\ ~has_blueprint
    /\ run_num' = 2
    /\ observed' = [observed EXCEPT !.blueprint = @ \/ "BLUEPRINT.md" \in files]
    /\ UNCHANGED <<files, installed, lastCall, pc, mode, options, has_blueprint,
                   total_runs, retry_count, agentCalls, launched, sleeps,
                   retval, raised>>
    /\ UNCHANGED <<ledgerVars, detectorVars, waitVars, scaffoldVars,
                   watchdogVars, prevRun>>

\* run_num == 1, the run started without a blueprint, BLUEPRINT.md exists
\* by now: `run_num = 2; continue`
RunBlueprintSkip ==
    /\ pc = "run_loop"
    /\ run_num <= total_runs
    /\ run_num = 1 /\ ~has_blueprint
    /\ "BLUEPRINT.md" \in files
    /\ run_num' = 2
    /\ observed' = [observed EXCEPT !.blueprint = @ \/ "BLUEPRINT.md" \in files]
    /\ UNCHANGED <<files, installed, lastCall, pc, mode, options, has_blueprint,
                   total_runs, retry_count, agentCalls, launched, sleeps,
                   retval, raised>>
    /\ UNCHANGED <<ledgerVars, detectorVars, waitVars, scaffoldVars,
                   watchdogVars, prevRun>>

\* run_num == 1, no blueprint: render the blueprint prompt and enter the
\* retry loop
RunBlueprintEnter ==
    /\ pc = "run_loop"
    /\ run_num <= total_runs
    /\ run_num = 1 /\ ~has_blueprint
    /\ "BLUEPRINT.md" \notin files
    /\ IF CallPrompt("blueprint_prompt", 3) # "ok"
       THEN /\ Raise(CallPrompt("blueprint_prompt", 3),
                     "blueprint_prompt", run_num)
            /\ UNCHANGED retry_count
       ELSE /\ retry_count' = 0
            /\ pc' = "run_blueprint"
            /\ raised' = raised
    /\ UNCHANGED <<files, installed, lastCall, mode, options, has_blueprint,
                   total_runs, run_num, agentCalls, launched, sleeps, retval,
                   observed>>
    /\ UNCHANGED <<ledgerVars, detectorVars, waitVars, scaffoldVars,
                   watchdogVars, prevRun>>

\* one pass of `while not blueprint_done and retry_count < max_retries`,
\* and what follows the loop when the pass ends it
RunBlueprintAttempt ==
    /\ pc = "run_blueprint"
    /\ retry_count < max_retries
    /\ \E outs \in AgentOutcomes(installed), d \in Durations :
         LET call == run_agent(installed, outs)
             after == files \cup WrittenBy(call.launches)
         IN  /\ agentCalls' = Append(agentCalls,
                    [kind |-> "blueprint", index |-> run_num,
                     raised |-> call.raised])
             /\ launched' = launched \o call.launches
             /\ files' = after
             /\ IF call.raised # "none"
                THEN /\ Raise(call.raised, "run_agent", run_num)
                     /\ UNCHANGED <<run_num, retry_count, sleeps, retval,
                                    observed>>
                ELSE IF "BLUEPRINT.md" \in after
                THEN /\ RunFinishIteration(d)
                     /\ observed' = [observed EXCEPT !.blueprint = TRUE]
                     /\ UNCHANGED retry_count
                ELSE /\ retry_count' = retry_count + 1
                     /\ UNCHANGED observed
                     /\ sleeps' = Append(sleeps,
                            [kind |-> "cooldown", after |-> run_num,
                             seconds |-> CooldownSeconds])
                     /\ IF retry_count + 1 < max_retries
                        THEN pc' = "run_blueprint" /\ retval' = retval
                        ELSE pc' = "returned" /\ retval' = "False"
                     /\ UNCHANGED <<run_num, raised>>
    /\ UNCHANGED <<installed, lastCall, mode, options, has_blueprint,
                   total_runs>>
    /\ UNCHANGED <<ledgerVars, detectorVars, waitVars, scaffoldVars,
                   watchdogVars, prevRun>>

\* a session of run that renders prompts.<prompt> with nargs arguments and
\* invokes the agent once
RunSession(kind, prompt, nargs) ==
    /\ \E outs \in AgentOutcomes(installed), d \in Durations :
         IF CallPrompt(prompt, nargs) # "ok"
         THEN /\ Raise(CallPrompt(prompt, nargs), prompt, run_num)
              /\ UNCHANGED <<files, agentCalls, launched, run_num, sleeps,
                             retval>>
         ELSE LET call == run_agent(installed, outs)
              IN  /\ agentCalls' = Append(agentCalls,
                         [kind |-> kind, index |-> run_num,
                          raised |-> call.raised])
                  /\ launched' = launched \o call.launches
                  /\ files' = files \cup WrittenBy(call.launches)
                  /\ IF call.raised # "none"
                     THEN /\ Raise(call.raised, "run_agent", run_num)
                          /\ UNCHANGED <<run_num, sleeps, retval>>
                     ELSE RunFinishIteration(d)
    /\ UNCHANGED <<installed, lastCall, mode, options, has_blueprint,
                   total_runs, retry_count, observed>>
    /\ UNCHANGED <<ledgerVars, detectorVars, waitVars, scaffoldVars,
                   watchdogVars, prevRun>>

\* `elif run_num == total_runs`: the security/final session
RunFinalSession ==
    /\ pc = "run_loop"
    /\ run_num <= total_runs
    /\ ~(run_num = 1 /\ ~has_blueprint)
    /\ run_num = total_runs
    /\ RunSession("final", "final_session_prompt", 2)

\* `else`: a build session
RunBuildSession ==
    /\ pc = "run_loop"
    /\ run_num <= total_runs
    /\ ~(run_num = 1 /\ ~has_blueprint)
    /\ run_num # total_runs
    /\ RunSession("build", "session_prompt", 2)

\* ----------------------------------------------------------- run_gg_mode
\* Path.unlink, keeping the file
unlink_Keep(fs, path) == fs

\* Path.unlink
unlink(fs, path) == fs \ {path}

\* run_gg_mode, up to the research retry loop: total_runs, scaffolding, the
\* research prompt, the removal of an existing README.md
GgStart ==
    /\ pc = "idle"
    /\ \E o \in RunOptions :
         /\ options' = o
         /\ total_runs' = GgTotalRuns(o.sessions)
    /\ mode' = "gg"
    /\ observed' = [blueprint |-> FALSE, readme |-> "README.md" \in files]
    /\ IF CallPrompt("gg_research_prompt", 2) # "ok"
       THEN /\ Raise(CallPrompt("gg_research_prompt", 2),
                     "gg_research_prompt", 0)
            /\ files' = ensure_scaffolded(files)
            /\ UNCHANGED retry_count
       ELSE /\ files' = IF "README.md" \in ensure_scaffolded(files)
                        THEN unlink(ensure_scaffolded(files), "README.md")
                        ELSE ensure_scaffolded(files)
            /\ retry_count' = 0
            /\ pc' = "gg_research"
            /\ raised' = raised
    /\ UNCHANGED <<installed, lastCall, has_blueprint, run_num, agentCalls,
                   launched, sleeps, retval>>
    /\ UNCHANGED <<ledgerVars, detectorVars, waitVars, scaffoldVars,
                   watchdogVars, prevRun>>

\* one pass of `while not readme_done and retry_count < max_retries`, and
\* what follows the loop when the pass ends it: `return False`, or the
\* wait before the blueprint session and the entry into the session loop
\* (pc = "gg_loop")
GgResearchAttempt ==
    /\ pc = "gg_research"
    /\ retry_count < max_retries
    /\ \E outs \in AgentOutcomes(installed) :
         LET call == run_agent(installed, outs)
             after == files \cup WrittenBy(call.launches)
         IN  /\ agentCalls' = Append(agentCalls,
                    [kind |-> "research", index |-> 0, raised |-> call.raised])
             /\ launched' = launched \o call.launches
             /\ files' = after
             /\ IF call.raised # "none"
                THEN /\ Raise(call.raised, "run_agent", 0)
                     /\ UNCHANGED <<run_num, retry_count, sleeps, retval>>
                ELSE IF "README.md" \in after
                THEN /\ sleeps' = Append(sleeps,
                            [kind |-> "pace", after |-> 0,
                             seconds |-> options.interval * 60])
                     /\ run_num' = 1
                     /\ pc' = "gg_loop"
                     /\ UNCHANGED <<retry_count, retval, raised>>
                ELSE /\ retry_count' = retry_count + 1
                     /\ sleeps' = Append(sleeps,
                            [kind |-> "cooldown", after |-> 0,
                             seconds |-> CooldownSeconds])
                     /\ IF retry_count + 1 < max_retries
                        THEN pc' = "gg_research" /\ retval' = retval
                        ELSE pc' = "returned" /\ retval' = "False"
                     /\ UNCHANGED <<run_num, raised>>
    /\ UNCHANGED <<installed, lastCall, mode, options, has_blueprint,
                   total_runs, observed>>
    /\ UNCHANGED <<ledgerVars, detectorVars, waitVars, scaffoldVars,
                   watchdogVars, prevRun>>

Next ==
    \/ ExternalWrite
    \/ CallRunWithFallback
    \/ RunStart
    \/ RunRestart
    \/ RunBlueprintSkip
    \/ RunBlueprintEnter
    \/ RunBlueprintAttempt
    \/ RunFinalSession
    \/ RunBuildSession
    \/ GgStart
    \/ GgResearchAttempt

Spec == Init /\ [][Next]_vars

\* a step of a run that is under way
RunnerStep ==
    \/ RunBlueprintSkip
    \/ RunBlueprintEnter
    \/ RunBlueprintAttempt
    \/ RunFinalSession
    \/ RunBuildSession
    \/ GgResearchAttempt

\* Every tool invocation and every sleep returns: a run that is under way
\* and can take a step takes one.
FairSpec == Spec /\ WF_vars(RunnerStep)

TypeOK ==
    /\ files \subseteq ProjectDocs \cup ScaffoldPaths
    /\ installed \subseteq Tools
    /\ pc \in {"idle", "called", "run_loop", "run_blueprint", "gg_research", "gg_loop",
               "returned", "raised"}
    /\ mode \in {"none", "run", "gg"}
    /\ retval \in {"none", "True", "False"}
    /\ retry_count \in 0..max_retries

\* ------------------------------------------------- calls of rate_limit.py
\* the record of a call: its arguments, the ledger files that existed when
\* it was made, the RateLimitStatus it loaded and the bool it returned
Op(op, args, status, value) ==
    [op |-> op, args |-> args,
     had |-> [status |-> statusFile.exists, paused |-> pausedFile],
     status |-> status, value |-> value]

\* a caller invokes a function of rate_limit.py; the runner is not running
LedgerCall(op) ==
    /\ pc = "idle"
    /\ prevOp' = [op |-> lastOp.op, args |-> lastOp.args]
    /\ lastOp' = op
    /\ UNCHANGED <<installed, lastCall>>
    /\ UNCHANGED runnerVars
    /\ UNCHANGED <<detectorVars, waitVars, scaffoldVars, watchdogVars, prevRun>>

SaveRateLimitStatus ==
    \E opencode_limited \in BOOLEAN, kilocode_limited \in BOOLEAN, now \in Clocks :
        /\ LedgerCall(Op("save",
                [opencode_limited |-> opencode_limited,
                 kilocode_limited |-> kilocode_limited, tool_name |-> ""],
                RateLimitStatus, FALSE))
        /\ files' = files \cup {HeartbeatDir}
        /\ statusFile' =
              save_rate_limit_status(opencode_limited, kilocode_limited, now)
        /\ UNCHANGED pausedFile

LoadRateLimitStatus ==
    /\ LedgerCall(Op("load", NoArgs, load_rate_limit_status(statusFile), FALSE))
    /\ UNCHANGED <<files, statusFile, pausedFile>>

MarkToolLimited ==
    \E tool_name \in ToolNames, now \in Clocks :
        /\ LedgerCall(Op("mark", [NoArgs EXCEPT !.tool_name = tool_name],
                         load_rate_limit_status(statusFile), FALSE))
        /\ files' = files \cup {HeartbeatDir}
        /\ statusFile' = mark_tool_limited(statusFile, tool_name, now)
        /\ UNCHANGED pausedFile

ClearRateLimitStatus ==
    /\ LedgerCall(Op("clear", NoArgs, RateLimitStatus, FALSE))
    /\ statusFile' = clear_rate_limit_status(statusFile, pausedFile).status
    /\ pausedFile' = clear_rate_limit_status(statusFile, pausedFile).paused
    /\ UNCHANGED files

IsPaused ==
    /\ LedgerCall(Op("is_paused", NoArgs, RateLimitStatus, is_paused(pausedFile)))
    /\ UNCHANGED <<files, statusFile, pausedFile>>

\* write_paused_file: nothing reads the text of the marker, only its existence
WritePausedFile ==
    /\ LedgerCall(Op("write_paused", NoArgs, RateLimitStatus, FALSE))
    /\ files' = files \cup {HeartbeatDir}
    /\ pausedFile' = TRUE
    /\ UNCHANGED statusFile

AllToolsLimited ==
    /\ LedgerCall(Op("all_tools_limited", NoArgs,
                     load_rate_limit_status(statusFile),
                     all_tools_limited(load_rate_limit_status(statusFile),
                                       installed)))
    /\ UNCHANGED <<files, statusFile, pausedFile>>

LedgerNext ==
    \/ SaveRateLimitStatus
    \/ LoadRateLimitStatus
    \/ MarkToolLimited
    \/ ClearRateLimitStatus
    \/ IsPaused
    \/ WritePausedFile
    \/ AllToolsLimited

\* a project directory, scaffolded or not, before anything runs
LedgerInit ==
    /\ files \in {{}, ScaffoldPaths}
    /\ installed \in SUBSET Tools
    /\ LedgerUntouched
    /\ DetectorUntouched
    /\ RunnerNotStarted
    /\ WaitUntouched
    /\ ScaffoldUntouched
    /\ WatchdogUntouched

\* the functions of rate_limit.py, called in any order on a project
LedgerSpec == LedgerInit /\ [][LedgerNext]_vars

\* ---------------------------------------------------- calls of detector.py
\* a project directory before anything runs: the documents and scaffolding
\* of Init with any of the other paths
DetectorInit ==
    /\ files \in {d \cup sc : d \in SUBSET ProjectDocs, sc \in {{}, ScaffoldPaths}}
    /\ entries \in {e \in SUBSET OtherPaths : WellFormed(files \cup e)}
    /\ detection = NoDetection
    /\ installed = {}
    /\ LedgerUntouched
    /\ RunnerNotStarted
    /\ WaitUntouched
    /\ ScaffoldUntouched
    /\ WatchdogUntouched

DetectProjectState ==
    /\ pc = "idle"
    /\ detection' =
          [called |-> TRUE,
           of |-> files \cup entries,
           state |-> detect_project_state(files \cup entries).state,
           info |-> detect_project_state(files \cup entries).info]
    /\ UNCHANGED <<files, installed, lastCall, entries>>
    /\ UNCHANGED runnerVars
    /\ UNCHANGED <<ledgerVars, waitVars, scaffoldVars, watchdogVars, prevRun>>

DetectorNext ==
    \/ DetectProjectState
    \/ ExternalWrite

\* detect_project_state, called on any project directory, which others may
\* write to between the calls
DetectorSpec == DetectorInit /\ [][DetectorNext]_vars

\* A caller invokes ensure_scaffolded on the project directory the
\* detector is called on.
ScaffoldProject ==
    /\ pc = "idle"
    /\ files' = ensure_scaffolded(files)
    /\ UNCHANGED <<installed, lastCall>>
    /\ UNCHANGED runnerVars
    /\ UNCHANGED <<ledgerVars, detectorVars, waitVars, scaffoldVars,
                   watchdogVars, prevRun>>

ScaffoldedDetectorNext ==
    \/ DetectProjectState
    \/ ScaffoldProject
    \/ ExternalWrite

\* detect_project_state and ensure_scaffolded, called in any order on any
\* project directory
ScaffoldedDetectorSpec == DetectorInit /\ [][ScaffoldedDetectorNext]_vars

\* ------------------------------------- run_with_fallback on any project
\* a project whose ledger files may exist when run_with_fallback is called
InvokerInit ==
    /\ files \in {{}} \cup {d \cup ScaffoldPaths : d \in SUBSET ProjectDocs}
    /\ installed \in SUBSET Tools
    /\ statusFile \in
          {NoFile} \cup {save_rate_limit_status(TRUE, FALSE, c) : c \in Clocks}
    /\ pausedFile \in BOOLEAN
    /\ (statusFile.exists \/ pausedFile) => HeartbeatDir \in files
    /\ lastOp = NoOp
    /\ prevOp = NoPrev
    /\ DetectorUntouched
    /\ RunnerNotStarted
    /\ WaitUntouched
    /\ ScaffoldUntouched
    /\ WatchdogUntouched

InvokerNext ==
    \/ CallRunWithFallback
    \/ ExternalWrite

\* run_with_fallback, called on a project directory in any ledger state
InvokerSpec == InvokerInit /\ [][InvokerNext]_vars

\* ------------------------------------------------- calculate_wait_time
\* A caller invokes calculate_wait_time with a duration of so many half
\* seconds and an interval in minutes.
CalculateWaitTime ==
    /\ \E h \in 0..(MaxRunSeconds * Halves), m \in 0..MaxInterval :
         waitCall' = [called |-> TRUE, halves |-> h, interval |-> m,
                      result |-> calculate_wait_time(h, m)]
    /\ UNCHANGED <<files, installed, lastCall>>
    /\ UNCHANGED runnerVars
    /\ UNCHANGED <<ledgerVars, detectorVars, scaffoldVars, watchdogVars, prevRun>>

WaitInit ==
    /\ files = {}
    /\ installed = {}
    /\ LedgerUntouched
    /\ DetectorUntouched
    /\ RunnerNotStarted
    /\ WaitUntouched
    /\ ScaffoldUntouched
    /\ WatchdogUntouched

WaitNext == CalculateWaitTime

\* calculate_wait_time, called with any duration and interval
WaitSpec == WaitInit /\ [][WaitNext]_vars

\* -------------------------------------------------- calls of scaffold.py
\* A caller invokes ensure_scaffolded on the project directory.
EnsureScaffoldedCall ==
    /\ scaffoldLog.calls < MaxCalls
    /\ \E include_readme \in BOOLEAN :
         LET r == EnsureScaffolded(tree, shipped, include_readme)
         IN  /\ tree' = r.tree
             /\ scaffoldLog' =
                   [scaffoldLog EXCEPT !.calls = @ + 1,
                                       !.include_readme = include_readme,
                                       !.returned = r.created_something,
                                       !.before = tree]
    /\ UNCHANGED <<files, installed, lastCall, shipped>>
    /\ UNCHANGED runnerVars
    /\ UNCHANGED <<ledgerVars, detectorVars, waitVars, watchdogVars,
                   prevRun>>

ScaffoldInit ==
    /\ tree \in {t \in Trees : WellFormedTree(t)}
    /\ shipped \in TemplateSets
    /\ scaffoldLog = [NoScaffold EXCEPT !.before = tree, !.initial = tree]
    /\ files = {}
    /\ installed = {}
    /\ LedgerUntouched
    /\ DetectorUntouched
    /\ RunnerNotStarted
    /\ WaitUntouched
    /\ WatchdogUntouched

ScaffoldNext == EnsureScaffoldedCall

\* ensure_scaffolded, called again and again on a project directory
ScaffoldSpec == ScaffoldInit /\ [][ScaffoldNext]_vars

\* ------------------------------------------- runner.run_with_timeout_check
\* RunResult(success=False, summary="", duration_seconds=0)
PlaceholderResult == [success |-> FALSE, summary |-> "", duration_seconds |-> 0]

\* thread.join() without a timeout
join_NoTimeout(thread, elapsed) == thread = "ended"

\* thread.join(timeout=max_runtime_seconds) returns when the worker has
\* ended or when the budget has elapsed
join(thread, elapsed) == thread = "ended" \/ elapsed

\* thread.is_alive()
is_alive(thread) == thread # "ended"

\* the call under way, or the last one
current == Len(threads)

\* A caller runs its next session through run_with_timeout_check: the
\* function up to thread.start()
WatchdogCall ==
    /\ supervisor = "idle"
    /\ Len(threads) < MaxWatchdogCalls
    /\ result' = Append(result, PlaceholderResult)
    /\ timeout_hit' = Append(timeout_hit, FALSE)
    /\ threads' = Append(threads, "started")
    /\ supervisor' = "join"
    /\ UNCHANGED <<joined, returns>>
    /\ UNCHANGED <<files, installed, lastCall>>
    /\ UNCHANGED runnerVars
    /\ UNCHANGED <<ledgerVars, detectorVars, waitVars, scaffoldVars, prevRun>>

\* the worker of call i, up to its call of run_agent
WorkerStart(i) ==
    /\ i \in 1..Len(threads)
    /\ threads[i] = "started"
    /\ result' = [result EXCEPT ![i] = PlaceholderResult]
    /\ threads' = [threads EXCEPT ![i] = "run_agent"]
    /\ UNCHANGED <<supervisor, timeout_hit, joined, returns>>
    /\ UNCHANGED <<files, installed, lastCall>>
    /\ UNCHANGED runnerVars
    /\ UNCHANGED <<ledgerVars, detectorVars, waitVars, scaffoldVars, prevRun>>

\* run_agent ends in the worker of call i: with an exception, which ends
\* the thread, or with a return value, which the worker puts into result
WorkerRunAgent(i) ==
    /\ i \in 1..Len(threads)
    /\ threads[i] = "run_agent"
    /\ \E outs \in AgentOutcomes(installed), d \in Durations :
         LET call == run_agent(installed, outs)
         IN  /\ files' = files \cup WrittenBy(call.launches)
             /\ result' = IF call.raised # "none"
                           THEN result
                           ELSE [result EXCEPT ![i] =
                                    [success |-> call.success,
                                     summary |-> "Session complete",
                                     duration_seconds |-> d]]
    /\ threads' = [threads EXCEPT ![i] = "ended"]
    /\ UNCHANGED <<supervisor, timeout_hit, joined, returns>>
    /\ UNCHANGED <<installed, lastCall>>
    /\ UNCHANGED runnerVars
    /\ UNCHANGED <<ledgerVars, detectorVars, waitVars, scaffoldVars, prevRun>>

\* thread.join(timeout=max_runtime_seconds) returns
Join ==
    /\ supervisor = "join"
    /\ \E elapsed \in BOOLEAN : join(threads[current], elapsed)
    /\ joined' = Append(joined, IF threads[current] = "ended"
                                 THEN "ended" ELSE "timeout")
    /\ supervisor' = "is_alive"
    /\ UNCHANGED <<threads, result, timeout_hit, returns>>
    /\ UNCHANGED <<files, installed, lastCall>>
    /\ UNCHANGED runnerVars
    /\ UNCHANGED <<ledgerVars, detectorVars, waitVars, scaffoldVars, prevRun>>

\* `if thread.is_alive(): timeout_hit.set()` and the two warnings
CheckAlive ==
    /\ supervisor = "is_alive"
    /\ timeout_hit' = [timeout_hit EXCEPT ![current] = is_alive(threads[current])]
    /\ supervisor' = "return"
    /\ UNCHANGED <<threads, result, joined, returns>>
    /\ UNCHANGED <<files, installed, lastCall>>
    /\ UNCHANGED runnerVars
    /\ UNCHANGED <<ledgerVars, detectorVars, waitVars, scaffoldVars, prevRun>>

\* `return result, timeout_hit.is_set()`
Return ==
    /\ supervisor = "return"
    /\ returns' = Append(returns, [result |-> result[current],
                                   was_timeout |-> timeout_hit[current]])
    /\ supervisor' = "idle"
    /\ UNCHANGED <<threads, result, timeout_hit, joined>>
    /\ UNCHANGED <<files, installed, lastCall>>
    /\ UNCHANGED runnerVars
    /\ UNCHANGED <<ledgerVars, detectorVars, waitVars, scaffoldVars, prevRun>>

\* a step of the caller's thread inside run_with_timeout_check
SupervisorStep == Join \/ CheckAlive \/ Return

WatchdogInit ==
    /\ files \in {{}, ScaffoldPaths}
    /\ installed \in SUBSET Tools
    /\ LedgerUntouched
    /\ DetectorUntouched
    /\ RunnerNotStarted
    /\ WaitUntouched
    /\ ScaffoldUntouched
    /\ WatchdogUntouched

WatchdogNext ==
    \/ WatchdogCall
    \/ \E i \in 1..MaxWatchdogCalls : WorkerStart(i)
    \/ \E i \in 1..MaxWatchdogCalls : WorkerRunAgent(i)
    \/ Join
    \/ CheckAlive
    \/ Return

\* the sessions of a caller run one after the other through
\* run_with_timeout_check; the workers run when the scheduler lets them
WatchdogSpec == WatchdogInit /\ [][WatchdogNext]_vars

\* Time passes and the caller's thread is scheduled: a join with a timeout
\* returns, and the statements after it are executed.  Nothing is assumed
\* of the workers.
WatchdogFairSpec == WatchdogSpec /\ WF_vars(SupervisorStep)

\* ================================================================ claims
RunEnded == pc \in {"returned", "raised"}

\* the agent invocations of the given kind that ran to their end
Completed(kind) ==
    Cardinality({k \in 1..Len(agentCalls) :
                    agentCalls[k].kind = kind /\ agentCalls[k].raised = "none"})

\* the agent invocations made for session index i that ran to their end
CompletedAt(i) ==
    Cardinality({k \in 1..Len(agentCalls) :
                    agentCalls[k].index = i /\ agentCalls[k].raised = "none"})

\* the kind of session that run gives index i when it started without a
\* blueprint and derived `total` sessions
KindAt(i, total) ==
    IF i = 1 THEN "blueprint" ELSE IF i = total THEN "final" ELSE "build"

C2_RunWithBlueprintPerformsAll ==
    (mode = "run" /\ has_blueprint /\ RunEnded)
    => /\ total_runs = options.sessions + 1
       /\ Completed("build") = options.sessions
       /\ Completed("final") = 1
       /\ Completed("blueprint") = 0
       /\ Len(agentCalls) = options.sessions + 1

\* C3 as stated: a full-autonomy run in which README.md and BLUEPRINT.md
\* both appear has, once it has ended, performed 1 research, 1 blueprint,
\* `sessions` build and 1 final session, and the total of the progress
\* header (total_runs) is that count, sessions + 3.
C3_GgTotalIsSessionsPlusThree ==
    (mode = "gg" /\ RunEnded /\ ProjectDocs \subseteq files)
    => /\ total_runs = options.sessions + 3
       /\ Completed("research") = 1
       /\ Completed("blueprint") = 1
       /\ Completed("build") = options.sessions
       /\ Completed("final") = 1

\* C4 as stated: a run started with resume = r begins at session index r:
\* its session index is never below r and it calls the agent for no index
\* below r.
C4_ResumeSkipsEarlierSessions ==
    mode = "run"
    => /\ run_num >= options.resume
       /\ \A k \in 1..Len(agentCalls) : agentCalls[k].index >= options.resume

\* C5 as stated: an existing-project run that had to write the blueprint
\* and in which BLUEPRINT.md never exists ends with exactly 3 blueprint
\* invocations and the return value False.
C5_ThreeAttemptsThenFalse ==
    (mode = "run" /\ ~has_blueprint /\ RunEnded /\ "BLUEPRINT.md" \notin files)
    => /\ Len(agentCalls) = 3
       /\ \A k \in 1..3 : agentCalls[k].kind = "blueprint"
       /\ retval = "False"

\* C7 as stated: when a run has ended, every build/improve or final session
\* it got to has had exactly one agent invocation, whatever its result, and
\* the run went on from it.
C7_EverySessionInvokedOnce ==
    (mode = "run" /\ RunEnded)
    => \A i \in 1..total_runs :
          (i <= run_num /\ ~(i = 1 /\ ~has_blueprint)) => CompletedAt(i) = 1

\* C8 as stated: a run ends by returning; it returns False exactly when the
\* retries for a research or blueprint artifact are used up, and otherwise
\* it has gone through its last session and returns True.
C8_OnlyRetryExhaustionIsFatal ==
    RunEnded
    => /\ pc = "returned"
       /\ retval \in {"True", "False"}
       /\ retval = "False" <=> retry_count = max_retries
       /\ retval = "True" => run_num = total_runs + 1

\* the candidates of the last direct call, in priority order
Candidates ==
    SelectSeq(ToolOrder, LAMBDA t : t \in installed /\ t \notin lastCall.excluded)

\* launch k of the last direct call exited non-zero with an error stream
\* that matches a rate-limit pattern of the launched tool
RateLimitExit(k) ==
    LET l == lastCall.launches[k]
    IN  /\ l.out.exc = "none"
        /\ l.out.rc # 0
        /\ check_rate_limit(l.out.stderr, l.tool)

\* launch k of the last direct call exited with code 0
ZeroExit(k) ==
    /\ lastCall.launches[k].out.exc = "none"
    /\ lastCall.launches[k].out.rc = 0

\* C9: with both tools installed and none excluded, when the first exits
\* non-zero with a rate-limit error stream the second is launched, and when
\* that one exits 0 the call returns SUCCESS with tool_used the second tool;
\* no call in which a candidate exited 0 returns RATE_LIMITED.
C9_FallbackToSecondTool ==
    lastCall.called
    => /\ (Candidates = ToolOrder /\ RateLimitExit(1))
          => /\ Len(lastCall.launches) = 2
             /\ lastCall.launches[2].tool = ToolOrder[2]
             /\ ZeroExit(2) => /\ lastCall.result = SUCCESS
                               /\ lastCall.tool_used = ToolOrder[2]
       /\ (\E k \in 1..Len(lastCall.launches) : ZeroExit(k))
          => lastCall.result # RATE_LIMITED

\* C9 witness: opencode was rate-limited, kilocode exited 0, and the call
\* returned SUCCESS naming kilocode.
C9_Witness ==
    /\ lastCall.called
    /\ Candidates = ToolOrder
    /\ Len(lastCall.launches) = 2
    /\ RateLimitExit(1) /\ ZeroExit(2)
    /\ lastCall.result = SUCCESS
    /\ lastCall.tool_used = "kilocode"

\* C10: when every launch of a call with at least one candidate exited
\* non-zero with a rate-limit error stream, every candidate was launched
\* exactly once, in order, and the call returned RATE_LIMITED.
C10_AllRateLimited ==
    (/\ lastCall.called
     /\ Candidates # <<>>
     /\ \A k \in 1..Len(lastCall.launches) : RateLimitExit(k))
    => /\ lastCall.result = RATE_LIMITED
       /\ Len(lastCall.launches) = Len(Candidates)
       /\ \A k \in 1..Len(Candidates) : lastCall.launches[k].tool = Candidates[k]

\* C10 witness: both tools were candidates, both were rate-limited, and the
\* call returned RATE_LIMITED.
C10_Witness ==
    /\ lastCall.called
    /\ Candidates = ToolOrder
    /\ Len(lastCall.launches) = 2
    /\ RateLimitExit(1) /\ RateLimitExit(2)
    /\ lastCall.result = RATE_LIMITED

\* the diagnostic run_tool returned for launch k of the last direct call
LaunchDiagnostic(k) ==
    run_tool(lastCall.launches[k].tool, lastCall.launches[k].out).stderr

\* the last launch of the last direct call that was classified FAILED
LastFailed ==
    CHOOSE k \in 1..Len(lastCall.launches) :
        /\ lastCall.launches[k].result = FAILED
        /\ \A l \in (k + 1)..Len(lastCall.launches) :
              lastCall.launches[l].result # FAILED

\* C11 as stated: a call that ran out of candidates without a success
\* returns RATE_LIMITED only if every launch was classified RATE_LIMITED;
\* if some launch was classified FAILED it returns FAILED with the
\* diagnostic of the last launch classified FAILED.
C11_ExhaustionReportsLastFailure ==
    (/\ lastCall.called
     /\ Candidates # <<>>
     /\ lastCall.result # SUCCESS)
    => /\ lastCall.result = RATE_LIMITED
          => \A k \in 1..Len(lastCall.launches) :
                lastCall.launches[k].result = RATE_LIMITED
       /\ (\E k \in 1..Len(lastCall.launches) :
              lastCall.launches[k].result = FAILED)
          => /\ lastCall.result = FAILED
             /\ lastCall.stderr = LaunchDiagnostic(LastFailed)

\* C12: the launches of a call are candidates (installed, not excluded),
\* opencode is launched before kilocode and no tool twice; a launch that
\* exits 0 is the last launch of the call, and the call returns SUCCESS
\* naming the launched tool.
C12_ShortCircuitInOrder ==
    lastCall.called
    => /\ \A k \in 1..Len(lastCall.launches) :
             /\ lastCall.launches[k].tool \in installed \ lastCall.excluded
             /\ \A l \in (k + 1)..Len(lastCall.launches) :
                   /\ lastCall.launches[k].tool = "opencode"
                   /\ lastCall.launches[l].tool = "kilocode"
             /\ ZeroExit(k)
                   => /\ k = Len(lastCall.launches)
                      /\ lastCall.result = SUCCESS
                      /\ lastCall.tool_used = lastCall.launches[k].tool
       /\ (\A k \in 1..Len(lastCall.launches) : ~ZeroExit(k))
             => Len(lastCall.launches) = Len(Candidates)

\* C12 witness: both tools were candidates, opencode exited 0 with kilocode
\* still untried, and the call returned SUCCESS naming opencode after that
\* single launch.
C12_Witness ==
    /\ lastCall.called
    /\ installed = Tools /\ lastCall.excluded = {}
    /\ Len(lastCall.launches) = 1
    /\ lastCall.launches[1].tool = "opencode"
    /\ ZeroExit(1)
    /\ lastCall.result = SUCCESS
    /\ lastCall.tool_used = "opencode"

\* C13: a call with no installed tool left after the exclusions returns
\* FAILED with an empty tool_used and the diagnostic "No CLI tools
\* available", and launches nothing.
C13_NoToolsAvailable ==
    (lastCall.called /\ installed \ lastCall.excluded = {})
    => /\ lastCall.result = FAILED
       /\ lastCall.tool_used = ""
       /\ lastCall.stderr = Msg("No CLI tools available")
       /\ lastCall.launches = <<>>

\* C13 witness: both tools are installed and both are excluded, and the
\* call returned FAILED without a launch.
C13_Witness ==
    /\ lastCall.called
    /\ installed = Tools /\ lastCall.excluded = Tools
    /\ lastCall.result = FAILED
    /\ lastCall.launches = <<>>

\* C14 as stated: every agent invocation the runner issues returns a result
\* to the runner; no exception leaves run_agent into the runner.
C14_InvocationAlwaysReturns ==
    /\ \A k \in 1..Len(agentCalls) : agentCalls[k].raised = "none"
    /\ raised.site # "run_agent"

\* a rate-limit pattern of the tool itself occurs in the text, in any case
MatchesOwnPattern(text, tool) ==
    \E k \in 1..Len(TOOL_CONFIG[tool].rate_limit_patterns) :
        Search(TOOL_CONFIG[tool].rate_limit_patterns[k], text)

\* C15: a launch that exits 0 is classified SUCCESS whatever its error
\* stream; one that exits non-zero is classified RATE_LIMITED exactly when
\* its error stream matches a pattern of the launched tool, and FAILED
\* otherwise.
C15_SingleToolClassification ==
    lastCall.called
    => \A k \in 1..Len(lastCall.launches) :
          LET l == lastCall.launches[k]
          IN  l.out.exc = "none"
              => /\ l.out.rc = 0 => l.result = SUCCESS
                 /\ l.out.rc # 0
                       => /\ l.result \in {RATE_LIMITED, FAILED}
                          /\ l.result = RATE_LIMITED
                                <=> MatchesOwnPattern(l.out.stderr, l.tool)

\* C15 witness: opencode exited non-zero with "HTTP 429" on its error
\* stream, which only a pattern of kilocode matches, and was classified
\* FAILED; kilocode then exited 0 with a rate-limit text on its error
\* stream and was classified SUCCESS.
C15_Witness ==
    /\ lastCall.called
    /\ Len(lastCall.launches) = 2
    /\ lastCall.launches[1].tool = "opencode"
    /\ lastCall.launches[1].out.exc = "none"
    /\ lastCall.launches[1].out.rc # 0
    /\ lastCall.launches[1].out.stderr = ErrHttp429
    /\ lastCall.launches[1].result = FAILED
    /\ ZeroExit(2)
    /\ lastCall.launches[2].out.stderr = ErrRateLimitExceeded
    /\ lastCall.launches[2].result = SUCCESS

\* C16: a load_rate_limit_status that directly follows a
\* save_rate_limit_status(opencode_limited, kilocode_limited) returns a
\* status with exactly those two flags and a non-empty timestamp.
C16_SaveLoadRoundTrip ==
    (lastOp.op = "load" /\ prevOp.op = "save")
    => /\ lastOp.status.opencode_limited = prevOp.args.opencode_limited
       /\ lastOp.status.kilocode_limited = prevOp.args.kilocode_limited
       /\ lastOp.status.timestamp # <<>>

\* C16 witness: save(opencode_limited=True, kilocode_limited=False) was
\* followed by a load that returned True, False and a timestamp.
C16_Witness ==
    /\ lastOp.op = "load" /\ prevOp.op = "save"
    /\ prevOp.args.opencode_limited /\ ~prevOp.args.kilocode_limited
    /\ lastOp.status.opencode_limited /\ ~lastOp.status.kilocode_limited
    /\ Len(lastOp.status.timestamp) = 19

\* C17: after clear_rate_limit_status, whatever ledger files existed, the
\* status file and the paused marker are absent, is_paused is false and
\* load_rate_limit_status gives both flags false; a call of is_paused or
\* load that follows returns just that, and a clear that follows a clear
\* finds nothing and leaves nothing.
C17_ClearRemovesBoth ==
    /\ lastOp.op = "clear"
          => /\ ~statusFile.exists
             /\ ~pausedFile
             /\ ~is_paused(pausedFile)
             /\ ~load_rate_limit_status(statusFile).opencode_limited
             /\ ~load_rate_limit_status(statusFile).kilocode_limited
    /\ (prevOp.op = "clear" /\ lastOp.op = "is_paused") => ~lastOp.value
    /\ (prevOp.op = "clear" /\ lastOp.op = "load")
          => /\ ~lastOp.status.opencode_limited
             /\ ~lastOp.status.kilocode_limited
    /\ (prevOp.op = "clear" /\ lastOp.op = "clear")
          => /\ ~lastOp.had.status /\ ~lastOp.had.paused
             /\ ~statusFile.exists /\ ~pausedFile

\* C17 witness: clear was called with both the status file and the paused
\* marker present, and neither is left.
C17_Witness ==
    /\ lastOp.op = "clear"
    /\ lastOp.had.status /\ lastOp.had.paused
    /\ ~statusFile.exists /\ ~pausedFile

\* the ledger flag of a tool in a loaded status
Flag(status, tool) ==
    IF tool = "opencode" THEN status.opencode_limited
    ELSE status.kilocode_limited

\* C18: all_tools_limited returns true exactly when every installed tool
\* has its flag set in the ledger: true with no tool installed, false when
\* an installed tool is not flagged, whatever the flag of a tool that is
\* not installed; when the ledger was just saved, the flags are the saved
\* ones.
C18_AllToolsLimited ==
    lastOp.op = "all_tools_limited"
    => /\ lastOp.value <=> \A t \in installed : Flag(lastOp.status, t)
       /\ installed = {} => lastOp.value
       /\ prevOp.op = "save"
             => /\ lastOp.status.opencode_limited = prevOp.args.opencode_limited
                /\ lastOp.status.kilocode_limited = prevOp.args.kilocode_limited

\* C18 witness: only opencode is installed, the ledger was saved with
\* opencode flagged and kilocode not, and all_tools_limited returned true.
C18_Witness ==
    /\ lastOp.op = "all_tools_limited"
    /\ prevOp.op = "save"
    /\ installed = {"opencode"}
    /\ prevOp.args.opencode_limited /\ ~prevOp.args.kilocode_limited
    /\ lastOp.value

\* C19 as stated: after a run_with_fallback call in which the launch of a
\* tool was classified RATE_LIMITED, the persisted ledger has the flag of
\* that tool set.
C19_LedgerRecordsRateLimit ==
    lastCall.called
    => \A k \in 1..Len(lastCall.launches) :
          lastCall.launches[k].result = RATE_LIMITED
          => Flag(load_rate_limit_status(statusFile), lastCall.launches[k].tool)

PromptSites ==
    {"gg_research_prompt", "blueprint_prompt", "session_prompt",
     "final_session_prompt"}

\* C25 as stated: every session the runner schedules gets past prompt
\* rendering, so no run is ended by an exception raised where a prompt is
\* rendered.
C25_PromptsRender == pc = "raised" => raised.site \notin PromptSites

\* the cooldown sleeps the runner has made
Cooldowns ==
    Cardinality({k \in 1..Len(sleeps) : sleeps[k].kind = "cooldown"})

\* the agent invocations of the given kind the runner has made
Invoked(kind) ==
    Cardinality({k \in 1..Len(agentCalls) : agentCalls[k].kind = kind})

\* C26 as stated: every cooldown sleep is followed by another attempt, so
\* a run that has ended made fewer cooldown sleeps than attempts, and a run
\* whose artifact (BLUEPRINT.md for run, README.md for run_gg_mode) never
\* appeared has made exactly 2 cooldown sleeps and returned False.
C26_CooldownOnlyBetweenAttempts ==
    /\ (RunEnded /\ Cooldowns > 0)
          => Cooldowns < Invoked("blueprint") + Invoked("research")
    /\ (RunEnded /\ mode = "run" /\ ~has_blueprint
          /\ "BLUEPRINT.md" \notin files)
          => Cooldowns = 2 /\ retval = "False"
    /\ (RunEnded /\ mode = "gg" /\ "README.md" \notin files)
          => Cooldowns = 2 /\ retval = "False"

C29_NeverLaunchesExcluded ==
    lastCall.called
    => \A k \in 1..Len(lastCall.launches) :
          /\ lastCall.launches[k].tool \in installed
          /\ lastCall.launches[k].tool \notin lastCall.excluded

\* C29 witness: both tools are installed, opencode is excluded, and the
\* call launched kilocode alone, which failed.
C29_Witness ==
    /\ lastCall.called
    /\ installed = Tools
    /\ lastCall.excluded = {"opencode"}
    /\ Len(lastCall.launches) = 1
    /\ lastCall.launches[1].tool = "kilocode"
    /\ lastCall.launches[1].result = FAILED
    /\ lastCall.result = RATE_LIMITED

\* C21: a re-run of run with the same sessions value, after a run that had
\* started without BLUEPRINT.md was interrupted once the blueprint was in
\* place, derives the total_runs the interrupted run had derived.
C21_RerunDerivesSameTotal ==
    (mode = "run" /\ prevRun.ran /\ prevRun.sessions = options.sessions
       /\ ~prevRun.has_blueprint /\ has_blueprint)
    => total_runs = prevRun.total_runs

\* C21 witness: a run with sessions = 2 started without the blueprint and
\* derived 3; it was interrupted with BLUEPRINT.md written, and the re-run
\* with sessions = 2 found the blueprint and derived 3.
C21_Witness ==
    /\ mode = "run" /\ prevRun.ran
    /\ prevRun.sessions = 2 /\ options.sessions = 2
    /\ ~prevRun.has_blueprint /\ has_blueprint
    /\ prevRun.total_runs = 3 /\ total_runs = 3

\* C23: for a duration of d whole seconds and an interval of m minutes,
\* calculate_wait_time returns m*60 - d when d < m*60, and then d plus the
\* wait is m*60, and returns m*60 when d >= m*60; the result is within
\* 0..m*60.
C23_AdaptiveWait ==
    (waitCall.called /\ waitCall.halves % Halves = 0)
    => LET d == waitCall.halves \div Halves
           interval_seconds == waitCall.interval * 60
       IN  /\ d < interval_seconds
                 => /\ waitCall.result = interval_seconds - d
                    /\ d + waitCall.result = interval_seconds
           /\ d >= interval_seconds => waitCall.result = interval_seconds
           /\ waitCall.result \in 0..interval_seconds

\* C23 witness: a session of 20 seconds with an interval of 1 minute waits
\* 40 seconds.
C23_Witness ==
    /\ waitCall.called
    /\ waitCall.halves = 20 * Halves
    /\ waitCall.interval = 1
    /\ waitCall.result = 40

\* C30: a call of run_with_fallback leaves the rate-limit status file and
\* the paused marker as they were, and a project document (BLUEPRINT.md,
\* README.md) that exists after the call and did not before was written by
\* a tool the call launched; none is removed.
C30_InvokerFrame ==
    [][(~lastCall.called /\ lastCall'.called)
         => /\ statusFile' = statusFile
            /\ pausedFile' = pausedFile
            /\ \A f \in ProjectDocs :
                  /\ f \in files => f \in files'
                  /\ (f \in files' /\ f \notin files)
                        => \E k \in 1..Len(lastCall'.launches) :
                              f \in lastCall'.launches[k].out.writes]_vars

\* C30 witness: run_with_fallback was called on a project with a status
\* file and a paused marker, the tool it launched wrote BLUEPRINT.md, both
\* ledger files are still there and there is no README.md.
C30_Witness ==
    /\ lastCall.called
    /\ statusFile.exists /\ pausedFile
    /\ \E k \in 1..Len(lastCall.launches) :
          lastCall.launches[k].out.writes = {"BLUEPRINT.md"}
    /\ "BLUEPRINT.md" \in files
    /\ "README.md" \notin files

C36_MarkKeepsFlags ==
    [][LET before == load_rate_limit_status(statusFile)
           after == load_rate_limit_status(statusFile')
       IN  /\ lastOp'.op = "mark"
                 => \A t \in Tools :
                       IF t = lastOp'.args.tool_name
                       THEN Flag(after, t)
                       ELSE Flag(after, t) = Flag(before, t)
           /\ lastOp'.op \in {"mark", "load"}
                 => \A t \in Tools : Flag(before, t) => Flag(after, t)]_vars

\* C36 witness: opencode was flagged in the ledger and kilocode was not;
\* mark_tool_limited("kilocode") has left both flags set.
C36_Witness ==
    /\ lastOp.op = "mark"
    /\ lastOp.args.tool_name = "kilocode"
    /\ lastOp.status.opencode_limited /\ ~lastOp.status.kilocode_limited
    /\ load_rate_limit_status(statusFile).opencode_limited
    /\ load_rate_limit_status(statusFile).kilocode_limited

\* C39: a call of ensure_scaffolded on a project directory without
\* BLUEPRINT.md leaves the state detect_project_state returns for it as it
\* was: what the call creates is hidden or ignored by the scan.
C39_ScaffoldKeepsDetectedState ==
    [][(/\ files' = ensure_scaffolded(files)
        /\ files' # files
        /\ "BLUEPRINT.md" \notin files)
         => detect_project_state(files' \cup entries').state
               = detect_project_state(files \cup entries).state]_vars

\* C39 witness: a directory that held only hidden and ignored entries was
\* detected as EMPTY before it was scaffolded; it is scaffolded now and is
\* detected as EMPTY still.
C39_Witness ==
    /\ detection.called
    /\ detection.state = EMPTY
    /\ detection.of \cap ScaffoldPaths = {}
    /\ ScaffoldPaths \subseteq files
    /\ "BLUEPRINT.md" \notin files
    /\ {".env", "node_modules"} \subseteq entries
    /\ detect_project_state(files \cup entries).state = EMPTY

SessionBegun(kind, prompt) ==
    \/ Invoked(kind) > 0
    \/ pc = "raised" /\ raised.site = prompt

\* C34: a run that has begun a build/improve or final session has seen
\* BLUEPRINT.md exist before: when it started, at the probe that skips the
\* blueprint session, or right after a blueprint attempt.
C34_SessionsNeedBlueprint ==
    (\/ SessionBegun("build", "session_prompt")
     \/ SessionBegun("final", "final_session_prompt"))
    => observed.blueprint

\* C34 witness: a run started without BLUEPRINT.md, found it in place at
\* the probe of session 1, went on to session 2 and began a build session.
C34_Witness ==
    /\ mode = "run" /\ ~has_blueprint
    /\ observed.blueprint
    /\ SessionBegun("build", "session_prompt")
    /\ raised.index = 2

\* C35: run_gg_mode enters the research loop, and so makes its first
\* research invocation, with README.md absent, whether or not it existed
\* when the run started; README.md is confirmed only after an invocation.
C35_StaleReadmeRemoved ==
    [][/\ (pc # "gg_research" /\ pc' = "gg_research")
            => "README.md" \notin files'
       /\ (pc # "gg_loop" /\ pc' = "gg_loop")
            => Invoked("research")' > Invoked("research")]_vars

\* C35 witness: README.md existed when the full-autonomy run started, the
\* run has made a research invocation, and README.md is absent.
C35_Witness ==
    /\ mode = "gg" /\ observed.readme
    /\ Invoked("research") > 0
    /\ "README.md" \notin files

\* C38 as stated: every run terminates: with every tool invocation and
\* every sleep returning, a run of run or run_gg_mode that was started
\* eventually returns True or False.
C38_EveryRunTerminates ==
    (mode # "none") ~> (pc = "returned" /\ retval \in {"True", "False"})

\* the calls of run_with_timeout_check that have returned
Returned == 1..Len(returns)

\* the workers that are executing run_agent
InFlight == {i \in 1..Len(threads) : threads[i] = "run_agent"}

\* C32: run_with_timeout_check returns once the budget has elapsed, whatever
\* the worker does; a call that returns with its worker still running
\* reports was_timeout = True; no step of the caller's thread ends a
\* worker, which may go on running after the call has returned.
C32_WatchdogReturns ==
    /\ [](\A c \in Returned :
             (joined[c] = "timeout" /\ is_alive(threads[c]))
                => returns[c].was_timeout)
    /\ [][supervisor' # supervisor
             => \A i \in 1..Len(threads) : threads'[i] = threads[i]]_vars
    /\ (supervisor = "join") ~> (supervisor = "idle")

\* C32 witness: the first call has returned with was_timeout = True after
\* its join timed out, and its worker is still executing run_agent.
C32_Witness ==
    /\ supervisor = "idle"
    /\ Len(returns) = 1
    /\ joined[1] = "timeout"
    /\ returns[1].was_timeout
    /\ threads[1] = "run_agent"

\* C33 as stated: at most one agent invocation is in flight at any time,
\* also when the sessions are run through run_with_timeout_check.
C33_OneInvocationInFlight == Cardinality(InFlight) <= 1

\* C37 as stated: a call of run_with_timeout_check that reports
\* was_timeout = True returns the placeholder failure result, never
\* success = True; one that reports was_timeout = False returns the result
\* its worker produced on completing the session.
C37_ConsistentReturn ==
    \A c \in Returned :
       IF returns[c].was_timeout
       THEN /\ ~returns[c].result.success
            /\ returns[c].result = PlaceholderResult
       ELSE /\ threads[c] = "ended"
            /\ returns[c].result.summary = "Session complete"

====
